---- MODULE Spec2Model ----
(***************************************************************************)
(* Model of the Saferpay payment processor (openedx_saferpay/processor.py) *)
(* and of its success callback view (openedx_saferpay/views.py).           *)
(*                                                                         *)
(* The database table of PaymentProcessorResponse rows is `ppr`; the      *)
(* Saferpay gateway is the environment: every outbound request blocks the  *)
(* worker that sent it until the gateway answers (or the call times out),  *)
(* and the answer is an input of the action that resumes the worker.      *)
(* `log` records, in program order, every externally visible effect:      *)
(* rows written, requests sent, answers received, exceptions raised,      *)
(* calls into the host order placement code and the HTTP outcome.         *)
(***************************************************************************)
EXTENDS Integers, Sequences, FiniteSets, TLC

VARIABLES ppr, log, workers, orders, payments, ninv, conv

vars == <<ppr, log, workers, orders, payments, ninv, conv>>

(* ------------------------------ bounds -------------------------------- *)

\* number of operations (adapter calls and callback requests) started
MaxOps == 2

Workers == {"w1", "w2"}

(* ------------------------------ values -------------------------------- *)

\* Python None, for string-valued fields
None == "None"

Baskets == {"b1"}

\* basket.order_number
OrderNumber(basket) == IF basket = "b1" THEN "O1" ELSE "O2"

\* bool(basket) in `basket.order_number if basket else None`
Truthy(basket) == basket # None

\* A JSON object is the set of its <<key, value>> pairs (nested keys are
\* written as dotted paths).
HasKey(data, k) == \E kv \in data : kv[1] = k

GetKey(data, k) == (CHOOSE kv \in data : kv[1] = k)[2]

(* ------------------------------ amounts ------------------------------- *)

\* A Decimal with two places (basket.total_incl_tax, the amount of a
\* refund): its whole part and its hundredths.
Decimal(whole, frac) == [whole |-> whole, frac |-> frac]

DigitChar(d) ==
    CASE d = 0 -> "0" [] d = 1 -> "1" [] d = 2 -> "2" [] d = 3 -> "3"
      [] d = 4 -> "4" [] d = 5 -> "5" [] d = 6 -> "6" [] d = 7 -> "7"
      [] d = 8 -> "8" [] d = 9 -> "9"

\* str(n) of an integer n >= 0, as the tuple of its characters
RECURSIVE StrOfInt(_)
StrOfInt(n) ==
    IF n < 10 THEN <<DigitChar(n)>>
    ELSE StrOfInt(n \div 10) \o <<DigitChar(n % 10)>>

\* faulty variant: the amount is truncated before it is scaled
AmountValue_WholeOnly(total) == StrOfInt(100 * total.whole)

\* str(int(100 * total)): 100 * Decimal is exact, int() drops an empty
\* fraction
AmountValue(total) == StrOfInt(100 * total.whole + total.frac)

\* lines 80-84: the Amount object of the Initialize request
PaymentAmount(total, currency) ==
    [AmountValue |-> AmountValue(total), CurrencyCode |-> currency]

\* n / 100.0: the float nearest to the decimal with n hundredths
DivideBy100(n) == Decimal(n \div 100, n % 100)

\* basket.total_incl_tax and basket.currency
BasketTotal(basket) == Decimal(19, 99)

BasketCurrency(basket) == "CHF"

(* ------------------------- gateway answers ---------------------------- *)

Timeout == [timeout |-> TRUE, status_code |-> 0, parseable |-> FALSE,
            content |-> None, data |-> {}]

Http(status, parseable, content, data) ==
    [timeout |-> FALSE, status_code |-> status, parseable |-> parseable,
     content |-> content, data |-> data]

InitializeBodies ==
    { {<<"RedirectUrl", "https://pay/page">>, <<"Token", "T1">>},
      {<<"RedirectUrl", "https://pay/page">>},
      {<<"SomeOtherField", "x">>} }

\* a string that int() reads is kept as the tuple of its characters
Str1999 == <<"1", "9", "9", "9">>

StrAbc == <<"a", "b", "c">>

AssertFull ==
    { <<"Transaction.Amount.Value", Str1999>>,
      <<"Transaction.Amount.CurrencyCode", "CHF">>,
      <<"PaymentMeans.Card.MaskedNumber", "xxxx1111">>,
      <<"PaymentMeans.Brand.PaymentMethod", "VISA">>,
      <<"Transaction.Id", "TX1">> }

AssertBodies ==
    { AssertFull,
      AssertFull \ {<<"Transaction.Id", "TX1">>},
      (AssertFull \ {<<"Transaction.Amount.Value", Str1999>>})
          \cup {<<"Transaction.Amount.Value", StrAbc>>} }

CaptureBodies == { {<<"CaptureId", "CAP1">>}, {<<"Status", "PENDING">>} }

RefundBodies == { {<<"Transaction.Id", "R1">>}, {<<"Behavior", "ABORT">>} }

ErrorBody == {<<"ok", "false">>}

Bodies(endpoint) ==
    CASE endpoint = "Initialize" -> InitializeBodies
      [] endpoint = "Assert"     -> AssertBodies
      [] endpoint = "Capture"    -> CaptureBodies
      [] endpoint = "Refund"     -> RefundBodies

\* what the gateway (or the network) may answer to a request
Answers(endpoint) ==
    {Timeout}
    \cup {Http(s, FALSE, "<html>", {}) : s \in {200, 500}}
    \cup {Http(500, TRUE, "json", ErrorBody)}
    \cup {Http(200, TRUE, "json", b) : b \in Bodies(endpoint)}

(* --------------------------- the adapter ------------------------------ *)

\* Python values handed to raise_api_error
PyNone == [t |-> "none", v |-> None]
PyStr(s) == [t |-> "str", v |-> s]
PyResponse(r) == [t |-> "response", v |-> r]
PyBasket(b) == IF b = None THEN PyNone ELSE [t |-> "basket", v |-> b]

NoDetail == [null |-> TRUE, status_code |-> 0, content |-> None, data |-> {}]

\* the payload column of a row
EmptyPayload == [kind |-> "empty", message |-> None, response |-> NoDetail,
                 data |-> {}]

DataPayload(data) == [kind |-> "data", message |-> None, response |-> NoDetail,
                      data |-> data]

ErrorPayload(message, detail) ==
    [kind |-> "error", message |-> message, response |-> detail, data |-> {}]

Row(basket, transaction_id, response) ==
    [basket |-> basket, transaction_id |-> transaction_id, response |-> response]

NoRow == Row(None, None, EmptyPayload)

\* Outcome of a piece of adapter code: the exception it raised (None when it
\* returned), the error it carries, the row it inserted (`wrote`), and the
\* value it returned.
Raised(exc, error, wrote, row) ==
    [exc |-> exc, error |-> error, wrote |-> wrote, row |-> row, value |-> {}]

Returned(value) ==
    [exc |-> None, error |-> EmptyPayload, wrote |-> FALSE, row |-> NoRow,
     value |-> value]

\* raise_api_error(message, response=None, response_data=None, basket=None)
raise_api_error(message, response, response_data, basket) ==
    IF response.t # "none" /\ response.t # "response"
    THEN \* response.status_code on something that is not a response
         Raised("AttributeError", EmptyPayload, FALSE, NoRow)
    ELSE LET error_response ==
                 IF response.t = "none" THEN NoDetail
                 ELSE [null |-> FALSE,
                       status_code |-> response.v.status_code,
                       content |-> response.v.content,
                       data |-> response_data]
             error == ErrorPayload(message.v, error_response)
         IN  IF basket.t \notin {"none", "basket"}
             THEN Raised("AttributeError", EmptyPayload, FALSE, NoRow)
             ELSE Raised("GatewayError", error, TRUE,
                         Row(basket.v,
                             IF Truthy(basket.v) THEN OrderNumber(basket.v)
                                                 ELSE None,
                             error))

\* faulty variant: the body of a non-200 answer is dropped from the error detail
make_api_json_request_NoData(resp, basket) ==
    IF resp.timeout
    THEN raise_api_error(PyStr("API timeout"), PyNone, {}, PyBasket(basket))
    ELSE IF ~resp.parseable
    THEN raise_api_error(PyStr("Could not parse JSON content from response"),
                         PyResponse(resp), {}, PyBasket(basket))
    ELSE IF resp.status_code # 200
    THEN raise_api_error(PyStr("Invalid API response"), PyResponse(resp),
                         {}, PyBasket(basket))
    ELSE Returned(resp.data)

\* faulty variant: a timeout is not caught and the call goes on without an answer
make_api_json_request_TimeoutIgnored(resp, basket) ==
    IF resp.timeout
    THEN Returned(resp.data)
    ELSE IF ~resp.parseable
    THEN raise_api_error(PyStr("Could not parse JSON content from response"),
                         PyResponse(resp), {}, PyBasket(basket))
    ELSE IF resp.status_code # 200
    THEN raise_api_error(PyStr("Invalid API response"), PyResponse(resp),
                         resp.data, PyBasket(basket))
    ELSE Returned(resp.data)

\* make_api_json_request, from the answer of the gateway on
make_api_json_request(resp, basket) ==
    IF resp.timeout
    THEN raise_api_error(PyStr("API timeout"), PyNone, {}, PyBasket(basket))
    ELSE IF ~resp.parseable
    THEN raise_api_error(PyStr("Could not parse JSON content from response"),
                         PyResponse(resp), {}, PyBasket(basket))
    ELSE IF resp.status_code # 200
    THEN raise_api_error(PyStr("Invalid API response"), PyResponse(resp),
                         resp.data, PyBasket(basket))
    ELSE Returned(resp.data)

\* get_base_request_data(retry_indicator=0)
\* faulty variant: the request is marked as a retry
get_base_request_data_Retry == [SpecVersion |-> "1.19", RetryIndicator |-> 1]

get_base_request_data == [SpecVersion |-> "1.19", RetryIndicator |-> 0]

NoUrl == [route |-> None, ppr_id |-> 0]

\* reverse("saferpay:callback_success", kwargs={"ppr_id": id})
SuccessUrl(id) == [route |-> "callback_success", ppr_id |-> id]

\* the JSON body of an outbound request: RequestHeader plus the data of the
\* endpoint
Request(endpoint, fields) ==
    fields @@
    [endpoint |-> endpoint,
     RequestHeader |-> get_base_request_data,
     OrderId |-> None, Success |-> NoUrl, Fail |-> None, Token |-> None,
     TransactionId |-> None, CaptureId |-> None,
     AmountValue |-> <<>>, CurrencyCode |-> None]

(* ------------------------------ events -------------------------------- *)

EvCreated(inv, id, row) == [inv |-> inv, type |-> "record_created", id |-> id, row |-> row]

EvSaved(inv, id, row) == [inv |-> inv, type |-> "record_saved", id |-> id, row |-> row]

EvRequest(inv, basket, req) ==
    [inv |-> inv, type |-> "request", basket |-> basket, req |-> req]

EvAnswer(inv, endpoint, resp) ==
    [inv |-> inv, type |-> "answer", endpoint |-> endpoint, resp |-> resp]

EvRaised(inv, op, exc, error) ==
    [inv |-> inv, type |-> "raised", op |-> op, exc |-> exc, error |-> error]

EvReturned(inv, op, value) ==
    [inv |-> inv, type |-> "returned", op |-> op, value |-> value]

Ev(inv, type) == [inv |-> inv, type |-> type]

EvRedirect(inv, url) == [inv |-> inv, type |-> "redirect", url |-> url]

\* the rows a piece of adapter code inserted, as (table, events)
Insert(table, inv, out) ==
    IF out.wrote THEN Append(table, out.row) ELSE table

InsertEvents(table, inv, out) ==
    IF out.wrote THEN <<EvCreated(inv, Len(table) + 1, out.row)>> ELSE <<>>

Idle == [pc |-> "idle", op |-> None, inv |-> 0, basket |-> None, ppr_id |-> 0,
         data |-> {}]

\* A new call or request is served by an idle worker; idle workers are
\* interchangeable, so the first one takes it.
Free(w) ==
    /\ workers[w].pc = "idle"
    /\ w = CHOOSE v \in Workers : workers[v].pc = "idle"

(* --------------------- get_transaction_parameters --------------------- *)

\* faulty variant: the Initialize request leaves before the row is created
InitializeEvents_RequestFirst(inv, basket, id) ==
    << EvRequest(inv, basket,
                 Request("Initialize",
                         PaymentAmount(BasketTotal(basket),
                                       BasketCurrency(basket)) @@
                         [OrderId |-> OrderNumber(basket),
                          Success |-> SuccessUrl(id),
                          Fail |-> "checkout:cancel-checkout"])),
       EvCreated(inv, id, Row(basket, None, EmptyPayload)) >>

\* the row is created first, its id goes into ReturnUrls.Success, then the
\* Initialize request is sent
InitializeEvents(inv, basket, id) ==
    << EvCreated(inv, id, Row(basket, None, EmptyPayload)),
       EvRequest(inv, basket,
                 Request("Initialize",
                         PaymentAmount(BasketTotal(basket),
                                       BasketCurrency(basket)) @@
                         [OrderId |-> OrderNumber(basket),
                          Success |-> SuccessUrl(id),
                          Fail |-> "checkout:cancel-checkout"])) >>

GetTransactionParameters(w, basket) ==
    /\ Free(w)
    /\ ninv < MaxOps
    /\ LET id == Len(ppr) + 1
           inv == ninv + 1
       IN  /\ ppr' = Append(ppr, Row(basket, None, EmptyPayload))
           /\ log' = log \o InitializeEvents(inv, basket, id)
           /\ workers' = [workers EXCEPT ![w] =
                  [pc |-> "Initialize", op |-> "get_transaction_parameters",
                   inv |-> inv, basket |-> basket, ppr_id |-> id, data |-> {}]]
           /\ ninv' = inv
    /\ UNCHANGED <<orders, payments>>

\* lines 102-109: response_data["RedirectUrl"], response_data["Token"]; the
\* except branch calls raise_api_error(basket, message). The message is kept
\* up to "content=", the text json.dumps appends is left out.
ParseErrorMessage == "Could not parse RedirectUrl field from response: content="

ParseInitialize(response_data, basket) ==
    IF HasKey(response_data, "RedirectUrl") /\ HasKey(response_data, "Token")
    THEN Returned(response_data)
    ELSE raise_api_error(PyBasket(basket),
                         PyStr(ParseErrorMessage),
                         {}, PyNone)

\* faulty variant: the answer is stored, the token is not
SavedRow_PayloadOnly(basket, response_data) ==
    Row(basket, None, DataPayload(response_data))

\* lines 112-114: the pre-created row takes the token and the answer
SavedRow(basket, response_data) ==
    Row(basket, GetKey(response_data, "Token"), DataPayload(response_data))

InitializeAnswer(w, resp) ==
    /\ workers[w].pc = "Initialize"
    /\ LET me == workers[w]
           api == make_api_json_request(resp, me.basket)
           out == IF api.exc # None THEN api
                  ELSE ParseInitialize(api.value, me.basket)
           answered == <<EvAnswer(me.inv, "Initialize", resp)>>
       IN  IF out.exc # None
           THEN /\ ppr' = Insert(ppr, me.inv, out)
                /\ log' = log \o answered \o InsertEvents(ppr, me.inv, out)
                       \o <<EvRaised(me.inv, me.op, out.exc, out.error)>>
           ELSE LET row == SavedRow(me.basket, out.value)
                IN  /\ ppr' = [ppr EXCEPT ![me.ppr_id] = row]
                    /\ log' = log \o answered
                           \o << EvSaved(me.inv, me.ppr_id, row),
                                 EvReturned(me.inv, me.op,
                                     {<<"payment_page_url",
                                        GetKey(out.value, "RedirectUrl")>>}) >>
    /\ workers' = [workers EXCEPT ![w] = Idle]
    /\ UNCHANGED <<orders, payments, ninv>>

(* ---------------------- handle_processor_response -------------------- *)

Digits == {"0", "1", "2", "3", "4", "5", "6", "7", "8", "9"}

DigitValue(c) ==
    CASE c = "0" -> 0 [] c = "1" -> 1 [] c = "2" -> 2 [] c = "3" -> 3
      [] c = "4" -> 4 [] c = "5" -> 5 [] c = "6" -> 6 [] c = "7" -> 7
      [] c = "8" -> 8 [] c = "9" -> 9

\* int(s) succeeds on a non-empty string of decimal digits
IsIntString(s) == Len(s) > 0 /\ \A i \in 1..Len(s) : s[i] \in Digits

RECURSIVE PyInt(_)
PyInt(s) ==
    IF Len(s) = 0 THEN 0
    ELSE 10 * PyInt(SubSeq(s, 1, Len(s) - 1)) + DigitValue(s[Len(s)])

\* lines 146-150: the fields read from the Assert answer, in order
ParseAssert(assert_data) ==
    IF ~HasKey(assert_data, "Transaction.Amount.Value")
    THEN Raised("KeyError", EmptyPayload, FALSE, NoRow)
    ELSE IF ~IsIntString(GetKey(assert_data, "Transaction.Amount.Value"))
    THEN Raised("ValueError", EmptyPayload, FALSE, NoRow)
    ELSE IF \E k \in {"Transaction.Amount.CurrencyCode",
                      "PaymentMeans.Card.MaskedNumber",
                      "PaymentMeans.Brand.PaymentMethod",
                      "Transaction.Id"} : ~HasKey(assert_data, k)
    THEN Raised("KeyError", EmptyPayload, FALSE, NoRow)
    ELSE Returned(assert_data)

\* line 162: capture_data["CaptureId"]
ParseCapture(capture_data) ==
    IF HasKey(capture_data, "CaptureId") THEN Returned(capture_data)
    ELSE Raised("KeyError", EmptyPayload, FALSE, NoRow)

\* faulty variant: the transaction id of the Assert answer is returned
HandledProcessorResponse_AssertId(assert_data, capture_data) ==
    [transaction_id |-> GetKey(assert_data, "Transaction.Id"),
     total |-> DivideBy100(PyInt(GetKey(assert_data,
                                        "Transaction.Amount.Value"))),
     currency |-> GetKey(assert_data, "Transaction.Amount.CurrencyCode"),
     card_number |-> GetKey(assert_data, "PaymentMeans.Card.MaskedNumber"),
     card_type |-> GetKey(assert_data, "PaymentMeans.Brand.PaymentMethod")]

\* lines 164-170; total is int(Value) / 100.0
HandledProcessorResponse(assert_data, capture_data) ==
    [transaction_id |-> GetKey(capture_data, "CaptureId"),
     total |-> DivideBy100(PyInt(GetKey(assert_data,
                                        "Transaction.Amount.Value"))),
     currency |-> GetKey(assert_data, "Transaction.Amount.CurrencyCode"),
     card_number |-> GetKey(assert_data, "PaymentMeans.Card.MaskedNumber"),
     card_type |-> GetKey(assert_data, "PaymentMeans.Brand.PaymentMethod")]

(* ------------------- SaferpaySuccessCallbackView.get ------------------ *)

\* oscar.apps.payment.exceptions: GatewayError is a PaymentError
IsPaymentError(exc) == exc \in {"PaymentError", "GatewayError"}

error_url == "checkout:error"

\* get_receipt_page_url(request, order_number=basket.order_number, ...)
ReceiptUrl(basket) == IF basket = "b1" THEN "receipt/O1" ELSE "receipt/O2"

\* faulty variant: the bare except logs and falls through to order creation
AfterPayment_FallThrough(exc) ==
    IF exc = None \/ ~IsPaymentError(exc) THEN "create_order"
    ELSE "redirect_error"

\* faulty variant: the handlers of PaymentError redirect to the receipt
AfterPayment_ErrorToReceipt(exc) ==
    IF exc = None THEN "create_order" ELSE "redirect_receipt"

\* faulty variant: every failure is treated as a payment error
AfterPayment_AllToError(exc) ==
    IF exc = None THEN "create_order" ELSE "redirect_error"

\* lines 45-57: what the handler does with the outcome of handle_payment
AfterPayment(exc) ==
    IF exc = None THEN "create_order"
    ELSE IF IsPaymentError(exc) THEN "redirect_error"
    ELSE "redirect_receipt"

\* faulty variant: the failure of handle_post_order leaves the handler
PlaceOrderEvents_Propagate(inv, basket, create, post) ==
    <<Ev(inv, "create_order")>>
    \o (IF create # "ok" THEN <<EvRedirect(inv, ReceiptUrl(basket))>>
        ELSE <<Ev(inv, "order_created"), Ev(inv, "handle_post_order")>>
             \o (IF post = "ok" THEN <<EvRedirect(inv, ReceiptUrl(basket))>>
                 ELSE <<EvRaised(inv, "handle_post_order", post, EmptyPayload),
                        [inv |-> inv, type |-> "escaped", exc |-> post]>>))

\* lines 59-69
PlaceOrderEvents(inv, basket, create, post) ==
    <<Ev(inv, "create_order")>>
    \o (IF create # "ok" THEN <<>>
        ELSE <<Ev(inv, "order_created"), Ev(inv, "handle_post_order")>>
             \o (IF post = "ok" THEN <<>>
                 ELSE <<EvRaised(inv, "handle_post_order", post, EmptyPayload),
                        [inv |-> inv, type |-> "log_order_placement_exception",
                         order_number |-> OrderNumber(basket),
                         basket |-> basket]>>))
    \o <<EvRedirect(inv, ReceiptUrl(basket))>>

\* lines 45-69, from the outcome of handle_payment on
ViewEvents(inv, basket, exc, create, post) ==
    CASE AfterPayment(exc) = "redirect_error" ->
             <<EvRedirect(inv, error_url)>>
      [] AfterPayment(exc) = "redirect_receipt" ->
             <<Ev(inv, "logger_exception"), EvRedirect(inv, ReceiptUrl(basket))>>
      [] OTHER -> PlaceOrderEvents(inv, basket, create, post)

OrderPlaced(exc, create) == AfterPayment(exc) = "create_order" /\ create = "ok"

\* faulty variant: the row is looked up with filter(id=ppr_id).first(),
\* which is None when there is no such row
get_object_or_404_First(table, id) ==
    IF id \in DOMAIN table THEN "found" ELSE "None"

\* line 33: get_object_or_404(PaymentProcessorResponse, id=ppr_id)
get_object_or_404(table, id) ==
    IF id \in DOMAIN table THEN "found" ELSE "Http404"

\* lines 32-48, up to the Assert request of handle_processor_response
CallbackGet(w, ppr_id) ==
    /\ Free(w)
    /\ ninv < MaxOps
    /\ LET inv == ninv + 1
           received == <<[inv |-> inv, type |-> "callback", ppr_id |-> ppr_id]>>
       IN  /\ ninv' = inv
           /\ IF get_object_or_404(ppr, ppr_id) = "Http404"
              THEN /\ log' = log \o received \o <<Ev(inv, "not_found")>>
                   /\ workers' = workers
              ELSE IF get_object_or_404(ppr, ppr_id) # "found"
                      \/ ppr[ppr_id].basket = None
              THEN \* basket.strategy = ... on None, outside any try
                   /\ log' = log \o received
                          \o <<[inv |-> inv, type |-> "escaped",
                                exc |-> "AttributeError"]>>
                   /\ workers' = workers
              ELSE LET basket == ppr[ppr_id].basket
                       token == ppr[ppr_id].transaction_id
                   IN  /\ log' = log \o received
                              \o <<EvRequest(inv, basket,
                                       Request("Assert", [Token |-> token]))>>
                       /\ workers' = [workers EXCEPT ![w] =
                              [pc |-> "Assert", op |-> "handle_processor_response",
                               inv |-> inv, basket |-> basket,
                               ppr_id |-> ppr_id, data |-> {}]]
    /\ UNCHANGED <<ppr, orders, payments>>

\* faulty variant: PaymentError is caught by the handler around the atomic
\* block only, so every exception rolls the block back
AtomicBlock_CaughtOutside(exc) == "rollback"

\* lines 45-50: an exception that leaves the block of transaction.atomic()
\* rolls it back; PaymentError is caught inside the block, which then ends
\* with the return of the redirect and commits
AtomicBlock(exc) == IF IsPaymentError(exc) THEN "commit" ELSE "rollback"

\* a failure of handle_processor_response inside the callback
PaymentFailed(w, endpoint, resp, out) ==
    LET me == workers[w]
    IN  /\ ppr' = IF AtomicBlock(out.exc) = "commit"
                  THEN Insert(ppr, me.inv, out)
                  ELSE ppr
        /\ log' = log \o <<EvAnswer(me.inv, endpoint, resp)>>
               \o InsertEvents(ppr, me.inv, out)
               \o <<EvRaised(me.inv, me.op, out.exc, out.error)>>
               \o ViewEvents(me.inv, me.basket, out.exc, "ok", "ok")
        /\ orders' = IF OrderPlaced(out.exc, "ok")
                     THEN orders \cup {[basket |-> me.basket, inv |-> me.inv]}
                     ELSE orders
        /\ workers' = [workers EXCEPT ![w] = Idle]
        /\ UNCHANGED <<payments, ninv>>

\* faulty variant: the capture refers to the token of the payment page
CaptureRequestData_Token(token, assert_data) == [TransactionId |-> token]

\* lines 150-155: transaction_id = assert_data["Transaction"]["Id"]
CaptureRequestData(token, assert_data) ==
    [TransactionId |-> GetKey(assert_data, "Transaction.Id")]

\* lines 140-161: the Assert answer; on success the Capture request is sent
AssertAnswer(w, resp) ==
    /\ workers[w].pc = "Assert"
    /\ LET me == workers[w]
           api == make_api_json_request(resp, me.basket)
           out == IF api.exc # None THEN api ELSE ParseAssert(api.value)
       IN  IF out.exc # None
           THEN PaymentFailed(w, "Assert", resp, out)
           ELSE /\ log' = log \o
                      << EvAnswer(me.inv, "Assert", resp),
                         EvRequest(me.inv, me.basket,
                             Request("Capture",
                                 CaptureRequestData(
                                     ppr[me.ppr_id].transaction_id,
                                     out.value))) >>
                /\ workers' = [workers EXCEPT ![w].pc = "Capture",
                                               ![w].data = out.value]
                /\ UNCHANGED <<ppr, orders, payments, ninv>>

HostOutcomes == {"ok", "PaymentError", "Exception"}

\* lines 162-170 and the rest of the handler: record_payment, create_order
\* and handle_post_order belong to the host and may each fail
CaptureAnswer(w, resp, record, create, post) ==
    /\ workers[w].pc = "Capture"
    /\ LET me == workers[w]
           api == make_api_json_request(resp, me.basket)
           out == IF api.exc # None THEN api ELSE ParseCapture(api.value)
       IN  IF out.exc # None
           THEN /\ record = "ok" /\ create = "ok" /\ post = "ok"
                /\ PaymentFailed(w, "Capture", resp, out)
           ELSE LET handled == HandledProcessorResponse(me.data, out.value)
                    exc == IF record = "ok" THEN None ELSE record
                IN  /\ (record # "ok" => create = "ok")
                    /\ (create # "ok" => post = "ok")
                    /\ log' = log \o
                           << EvAnswer(me.inv, "Capture", resp),
                              EvReturned(me.inv, me.op, handled) >>
                           \o (IF exc = None THEN <<Ev(me.inv, "payment_handled")>>
                               ELSE <<EvRaised(me.inv, "handle_payment", exc,
                                               EmptyPayload)>>)
                           \o ViewEvents(me.inv, me.basket, exc, create, post)
                    /\ payments' = IF exc = None
                                   THEN payments \cup
                                        {[basket |-> me.basket, inv |-> me.inv,
                                          reference |-> handled.transaction_id]}
                                   ELSE payments
                    /\ orders' = IF OrderPlaced(exc, create)
                                 THEN orders \cup
                                      {[basket |-> me.basket, inv |-> me.inv]}
                                 ELSE orders
                    /\ workers' = [workers EXCEPT ![w] = Idle]
                    /\ UNCHANGED <<ppr, ninv>>

(* ----------------------------- issue_credit --------------------------- *)

\* reference numbers the host may hand to issue_credit: the reference of a
\* recorded payment, or any other
References == {"CAP1"} \cup {p.reference : p \in payments}

RefundAmounts == {Decimal(25, 0)}

\* lines 179-185: capture_id = reference_number
RefundRequestData(reference_number, amount, currency) ==
    [AmountValue |-> AmountValue(amount), CurrencyCode |-> currency,
     CaptureId |-> reference_number]

IssueCredit(w, basket, reference_number, amount, currency) ==
    /\ Free(w)
    /\ ninv < MaxOps
    /\ LET inv == ninv + 1
       IN  /\ log' = log \o
                  << [inv |-> inv, type |-> "issue_credit",
                      reference_number |-> reference_number,
                      amount |-> amount, currency |-> currency],
                     EvRequest(inv, basket,
                        Request("Refund",
                            RefundRequestData(reference_number, amount,
                                              currency))) >>
           /\ workers' = [workers EXCEPT ![w] =
                  [pc |-> "Refund", op |-> "issue_credit", inv |-> inv,
                   basket |-> basket, ppr_id |-> 0, data |-> {}]]
           /\ ninv' = inv
    /\ UNCHANGED <<ppr, orders, payments>>

\* line 192: refund_data["Transaction"]["Id"]
ParseRefund(refund_data) ==
    IF HasKey(refund_data, "Transaction.Id") THEN Returned(refund_data)
    ELSE Raised("KeyError", EmptyPayload, FALSE, NoRow)

RefundAnswer(w, resp) ==
    /\ workers[w].pc = "Refund"
    /\ LET me == workers[w]
           api == make_api_json_request(resp, me.basket)
           out == IF api.exc # None THEN api ELSE ParseRefund(api.value)
       IN  IF out.exc # None
           THEN /\ ppr' = Insert(ppr, me.inv, out)
                /\ log' = log \o <<EvAnswer(me.inv, "Refund", resp)>>
                       \o InsertEvents(ppr, me.inv, out)
                       \o <<EvRaised(me.inv, me.op, out.exc, out.error)>>
           ELSE LET transaction_id == GetKey(out.value, "Transaction.Id")
                    row == Row(me.basket, transaction_id, DataPayload(out.value))
                IN  /\ ppr' = Append(ppr, row)
                    /\ log' = log \o
                           << EvAnswer(me.inv, "Refund", resp),
                              EvCreated(me.inv, Len(ppr) + 1, row),
                              EvReturned(me.inv, me.op, transaction_id) >>
    /\ workers' = [workers EXCEPT ![w] = Idle]
    /\ UNCHANGED <<orders, payments, ninv>>

(* ---------------------------------------------------------------------- *)

\* `conv` is used by the specification of the amount conversions only
NoAmount == [stage |-> "none", total |-> Decimal(0, 0), value |-> <<>>,
             back |-> Decimal(0, 0)]

Init ==
    /\ ppr = <<>>
    /\ log = <<>>
    /\ workers = [w \in Workers |-> Idle]
    /\ orders = {}
    /\ payments = {}
    /\ ninv = 0
    /\ conv = NoAmount

Initiate ==
    \/ \E w \in Workers, b \in Baskets : GetTransactionParameters(w, b)
    \/ \E w \in Workers : \E resp \in Answers("Initialize") : InitializeAnswer(w, resp)

Return ==
    \/ \E w \in Workers : \E id \in 1..(Len(ppr) + 1) : CallbackGet(w, id)
    \/ \E w \in Workers : \E resp \in Answers("Assert") : AssertAnswer(w, resp)
    \/ \E w \in Workers : \E resp \in Answers("Capture") :
           \E record \in HostOutcomes, create, post \in {"ok", "Exception"} :
               CaptureAnswer(w, resp, record, create, post)

Refund ==
    \/ \E w \in Workers, b \in Baskets \cup {None}, ref \in References,
          a \in RefundAmounts :
           IssueCredit(w, b, ref, a, "CHF")
    \/ \E w \in Workers : \E resp \in Answers("Refund") : RefundAnswer(w, resp)

Next == (Initiate \/ Return \/ Refund) /\ UNCHANGED conv

Spec == Init /\ [][Next]_vars

\* The shopper is back from the payment page: an earlier call of
\* get_transaction_parameters (logged as invocation 0) has returned, its row
\* holds the token. Callbacks and refunds follow.
TokenBody == {<<"RedirectUrl", "https://pay/page">>, <<"Token", "T1">>}

InitiatedRow == SavedRow("b1", TokenBody)

InitReturn ==
    /\ ppr = <<InitiatedRow>>
    /\ log = InitializeEvents(0, "b1", 1)
             \o << EvAnswer(0, "Initialize", Http(200, TRUE, "json", TokenBody)),
                   EvSaved(0, 1, InitiatedRow),
                   EvReturned(0, "get_transaction_parameters",
                              {<<"payment_page_url", "https://pay/page">>}) >>
    /\ workers = [w \in Workers |-> Idle]
    /\ orders = {}
    /\ payments = {}
    /\ ninv = 0
    /\ conv = NoAmount

\* The answers and host outcomes drawn after the return: the gateway times
\* out or answers 200 with any of the bodies; the host's own steps succeed,
\* except that the order may fail to be created.
ReturnAnswers(endpoint) ==
    {Timeout} \cup {Http(200, TRUE, "json", b) : b \in Bodies(endpoint)}

NextReturn ==
    /\ \/ \E w \in Workers : \E id \in 1..Len(ppr) : CallbackGet(w, id)
       \/ \E w \in Workers : \E resp \in ReturnAnswers("Assert") :
              AssertAnswer(w, resp)
       \/ \E w \in Workers : \E resp \in ReturnAnswers("Capture") :
              \E create \in {"ok", "Exception"} :
                  CaptureAnswer(w, resp, "ok", create, "ok")
       \/ \E w \in Workers : \E ref \in References, a \in RefundAmounts :
              IssueCredit(w, "b1", ref, a, "CHF")
       \/ \E w \in Workers : \E resp \in ReturnAnswers("Refund") :
              RefundAnswer(w, resp)
    /\ UNCHANGED conv

SpecReturn == InitReturn /\ [][NextReturn]_vars

(* ============================== properties ============================ *)

Events == DOMAIN log

IsAnswer(k) == log[k].type = "answer"

\* the next event of the log exists and belongs to the same invocation
SameNext(k) == k + 1 \in Events /\ log[k + 1].inv = log[k].inv

Ok200(resp) == ~resp.timeout /\ resp.parseable /\ resp.status_code = 200

\* the four kinds of gateway-level failure
TransportFailure(resp) ==
    resp.timeout \/ ~resp.parseable \/ resp.status_code # 200

Expected(endpoint) ==
    CASE endpoint = "Initialize" -> {"RedirectUrl", "Token"}
      [] endpoint = "Assert" ->
             {"Transaction.Amount.Value", "Transaction.Amount.CurrencyCode",
              "PaymentMeans.Card.MaskedNumber",
              "PaymentMeans.Brand.PaymentMethod", "Transaction.Id"}
      [] endpoint = "Capture" -> {"CaptureId"}
      [] endpoint = "Refund" -> {"Transaction.Id"}

LacksKey(endpoint, resp) ==
    Ok200(resp) /\ \E key \in Expected(endpoint) : ~HasKey(resp.data, key)

\* the answer at k is audited and surfaces as GatewayError: the next event
\* is the insertion of an error row, the one after it the raise
AuditedGatewayError(k) ==
    /\ SameNext(k) /\ SameNext(k + 1)
    /\ log[k + 1].type = "record_created"
    /\ log[k + 1].row.response.kind = "error"
    /\ log[k + 2].type = "raised"
    /\ log[k + 2].exc = "GatewayError"
    /\ log[k + 2].error = log[k + 1].row.response

\* C1: create_order is attempted in a callback only after, in that same
\* invocation, Assert and then Capture were answered successfully and
\* payment handling returned; no other execution calls create_order, and
\* every order placed comes from such an execution.
C1_NoOrderWithoutCapturedPayment ==
    /\ \A k \in Events :
          log[k].type = "create_order" =>
              \E a, c, h \in 1..(k - 1) :
                  /\ a < c /\ c < h
                  /\ log[a].inv = log[k].inv /\ IsAnswer(a)
                  /\ log[a].endpoint = "Assert" /\ Ok200(log[a].resp)
                  /\ ~LacksKey("Assert", log[a].resp)
                  /\ log[c].inv = log[k].inv /\ IsAnswer(c)
                  /\ log[c].endpoint = "Capture" /\ Ok200(log[c].resp)
                  /\ ~LacksKey("Capture", log[c].resp)
                  /\ log[h].inv = log[k].inv /\ log[h].type = "payment_handled"
                  /\ \A j \in 1..(k - 1) :
                         log[j].inv = log[k].inv => log[j].type # "raised"
    /\ \A o \in orders :
          \E k \in Events : log[k].inv = o.inv /\ log[k].type = "create_order"

\* C1 witness: a callback went through Assert, Capture and payment
\* handling, and its order was placed
C1_Witness ==
    \E k \in Events :
        /\ log[k].type = "order_created"
        /\ \E o \in orders : o.inv = log[k].inv

\* a callback invocation raised a payment error at k
PaymentErrorAt(k) ==
    /\ log[k].type = "raised"
    /\ log[k].op \in {"handle_processor_response", "handle_payment"}
    /\ IsPaymentError(log[k].exc)

UnexpectedErrorAt(k) ==
    /\ log[k].type = "raised"
    /\ log[k].op \in {"handle_processor_response", "handle_payment"}
    /\ ~IsPaymentError(log[k].exc)

\* the basket of the row a callback invocation looked up
CallbackBasket(inv) ==
    ppr[log[CHOOSE k \in Events :
                log[k].inv = inv /\ log[k].type = "callback"].ppr_id].basket

NoOrderStep(inv) ==
    \A j \in Events :
        log[j].inv = inv =>
            log[j].type \notin {"create_order", "order_created",
                                "handle_post_order"}

\* C4: a payment error (PaymentError, GatewayError included) raised by
\* payment handling in the callback is answered by a redirect to the
\* processor's error URL, with neither create_order nor handle_post_order.
C4_PaymentFailureRoutesToErrorPage ==
    \A k \in Events :
        PaymentErrorAt(k) =>
            /\ SameNext(k)
            /\ log[k + 1].type = "redirect"
            /\ log[k + 1].url = error_url
            /\ NoOrderStep(log[k].inv)
            /\ \A o \in orders : o.inv # log[k].inv

\* C4 witness: the Capture call of a callback failed with a gateway error
\* and the shopper was sent to the error page
C4_Witness ==
    \E k \in Events :
        /\ PaymentErrorAt(k) /\ log[k].exc = "GatewayError"
        /\ \E a \in 1..k : IsAnswer(a) /\ log[a].inv = log[k].inv
                            /\ log[a].endpoint = "Capture"
        /\ SameNext(k) /\ log[k + 1].type = "redirect"

\* C5: an error of payment handling that is no payment error is answered by
\* a redirect to the receipt URL of the basket, and create_order is not
\* called.
C5_UnexpectedFailureRoutesToReceipt ==
    \A k \in Events :
        UnexpectedErrorAt(k) =>
            /\ \E j \in Events :
                   /\ j > k /\ log[j].inv = log[k].inv
                   /\ log[j].type = "redirect"
                   /\ log[j].url = ReceiptUrl(CallbackBasket(log[k].inv))
            /\ \A j \in Events :
                   log[j].inv = log[k].inv /\ log[j].type = "redirect" =>
                       log[j].url # error_url
            /\ NoOrderStep(log[k].inv)
            /\ \A o \in orders : o.inv # log[k].inv

\* C5 witness: payment handling failed with an error that is no payment
\* error, and the shopper was redirected
C5_Witness ==
    \E k \in Events :
        /\ UnexpectedErrorAt(k)
        /\ \E j \in Events : j > k /\ log[j].inv = log[k].inv
                              /\ log[j].type = "redirect"

\* C2: an Initialize answer with status 200 and a parseable body that lacks
\* RedirectUrl or Token makes get_transaction_parameters insert one error
\* row whose message begins with "Could not parse RedirectUrl field from
\* response" and raise GatewayError.
C2_MissingRedirectFields ==
    \A k \in Events :
        ( IsAnswer(k) /\ log[k].endpoint = "Initialize"
          /\ LacksKey("Initialize", log[k].resp) ) =>
            /\ AuditedGatewayError(k)
            /\ log[k + 1].row.response.message = ParseErrorMessage
            /\ \A j \in Events :
                   ( j > k + 1 /\ log[j].inv = log[k].inv ) =>
                       log[j].type # "record_created"

\* C3: every gateway-level failure, at each endpoint and of each kind
\* (timeout, non-JSON body, non-200 status, 200 answer lacking an expected
\* key), inserts an error row and then raises GatewayError.
C3_EveryFailureAuditedAndUniform ==
    \A k \in Events :
        ( IsAnswer(k)
          /\ ( TransportFailure(log[k].resp)
               \/ LacksKey(log[k].endpoint, log[k].resp) ) ) =>
            AuditedGatewayError(k)

\* an invocation that no worker is still running
Finished(inv) == \A w \in Workers : workers[w].inv # inv

\* the rows that existed when the event at k was logged
RowsBefore(k) ==
    Cardinality({j \in 1..(k - 1) : log[j].type = "record_created"})

\* C6: every callback whose ppr_id names an existing row, whatever the row
\* is, ends in a redirect to the receipt URL or to the error URL; no
\* exception leaves the handler, and 404 is given for missing rows only.
C6_AlwaysRedirected ==
    \A k \in Events :
        ( log[k].type = "callback" /\ log[k].ppr_id <= RowsBefore(k)
          /\ Finished(log[k].inv) ) =>
            /\ \E j \in Events :
                   /\ j > k /\ log[j].inv = log[k].inv
                   /\ log[j].type = "redirect"
                   /\ log[j].url \in
                          {error_url} \cup {ReceiptUrl(b) : b \in Baskets}
            /\ \A j \in Events :
                   log[j].inv = log[k].inv =>
                       log[j].type \notin {"escaped", "not_found"}

\* the error detail of the row inserted for the answer at k
Detail(k) == log[k + 1].row.response.response

\* C7 as stated: every answer whose status is not 200, parseable or not,
\* raises GatewayError "Invalid API response" with the status code and the
\* parsed body (empty when unparseable) in the detail of the error row.
C7_Non200AsStated ==
    \A k \in Events :
        ( IsAnswer(k) /\ ~log[k].resp.timeout
          /\ log[k].resp.status_code # 200 ) =>
            /\ AuditedGatewayError(k)
            /\ log[k + 2].error.message = "Invalid API response"
            /\ ~Detail(k).null
            /\ Detail(k).status_code = log[k].resp.status_code
            /\ Detail(k).data =
                   (IF log[k].resp.parseable THEN log[k].resp.data ELSE {})

\* C7 amended: an answer whose status is not 200 and whose body parses
\* raises GatewayError "Invalid API response" with the status code and the
\* parsed body in the detail of the error row; when the body does not parse
\* the message is "Could not parse JSON content from response" and the
\* detail holds the status code and an empty parsed body.
C7_Non200Parseable ==
    \A k \in Events :
        ( IsAnswer(k) /\ ~log[k].resp.timeout
          /\ log[k].resp.status_code # 200 ) =>
            /\ AuditedGatewayError(k)
            /\ log[k + 2].error.message =
                   (IF log[k].resp.parseable
                    THEN "Invalid API response"
                    ELSE "Could not parse JSON content from response")
            /\ ~Detail(k).null
            /\ Detail(k).status_code = log[k].resp.status_code
            /\ Detail(k).content = log[k].resp.content
            /\ Detail(k).data =
                   (IF log[k].resp.parseable THEN log[k].resp.data ELSE {})

\* C7 witness: a 500 answer with a JSON body was turned into an error row
C7_Witness ==
    \E k \in Events :
        /\ IsAnswer(k) /\ log[k].resp = Http(500, TRUE, "json", ErrorBody)
        /\ AuditedGatewayError(k)
        /\ Detail(k).data = ErrorBody

\* C8: a timeout at any endpoint inserts exactly one error row with message
\* "API timeout" and no response detail, raises GatewayError with that
\* message, and the operation sends no later request, saves no row and
\* returns no result.
C8_TimeoutHandling ==
    \A k \in Events :
        ( IsAnswer(k) /\ log[k].resp.timeout ) =>
            /\ AuditedGatewayError(k)
            /\ log[k + 2].error.message = "API timeout"
            /\ Detail(k).null
            /\ \A j \in Events :
                   ( j > k + 1 /\ log[j].inv = log[k].inv ) =>
                       log[j].type \notin {"record_created", "record_saved",
                                           "request", "returned",
                                           "payment_handled", "create_order"}

\* C8 witness: calls to two different endpoints timed out
C8_Witness ==
    \E k, j \in Events :
        /\ IsAnswer(k) /\ log[k].resp.timeout
        /\ IsAnswer(j) /\ log[j].resp.timeout
        /\ log[k].endpoint # log[j].endpoint
        /\ Finished(log[k].inv) /\ Finished(log[j].inv)

\* C9: before each Initialize request the same call has inserted a row
\* linked to the basket of the request, and ReturnUrls.Success carries the
\* id of exactly that row; the row stays linked to the basket whether
\* Initialize then succeeds or fails.
C9_PreCreationOrdering ==
    \A k \in Events :
        ( log[k].type = "request" /\ log[k].req.endpoint = "Initialize" ) =>
            /\ log[k].req.Success.route = "callback_success"
            /\ \E j \in 1..(k - 1) :
                   /\ log[j].type = "record_created"
                   /\ log[j].inv = log[k].inv
                   /\ log[j].row.basket = log[k].basket
                   /\ log[j].id >= 1
                   /\ log[j].id = log[k].req.Success.ppr_id
            /\ log[k].req.Success.ppr_id \in DOMAIN ppr
            /\ ppr[log[k].req.Success.ppr_id].basket = log[k].basket

\* C9 witness: one call of get_transaction_parameters failed and another
\* returned a payment page
C9_Witness ==
    \E k, j \in Events :
        /\ log[k].type = "raised" /\ log[k].op = "get_transaction_parameters"
        /\ log[j].type = "returned" /\ log[j].op = "get_transaction_parameters"

\* C10: every answer of the gateway to an Assert, Capture or Refund
\* request, successful or not, is followed by the insertion of one more row
\* by the same call.
C10_RecordForEveryInteraction ==
    \A k \in Events :
        ( IsAnswer(k) /\ log[k].endpoint # "Initialize" ) =>
            /\ SameNext(k)
            /\ log[k + 1].type = "record_created"

(* ----------------------- the captured payment ------------------------- *)

\* C11: the transaction id of every processor response returned by
\* handle_processor_response is the CaptureId of the Capture answer of that
\* call, and neither the Transaction.Id of its Assert answer nor the token it
\* sent; every Refund request carries as CaptureReference.CaptureId the
\* reference_number issue_credit was called with.
C11_CaptureIdIsTheReference ==
    /\ \A k \in Events :
           ( log[k].type = "returned"
             /\ log[k].op = "handle_processor_response" ) =>
               /\ \E j \in 1..(k - 1) :
                      /\ IsAnswer(j) /\ log[j].inv = log[k].inv
                      /\ log[j].endpoint = "Capture"
                      /\ Ok200(log[j].resp)
                      /\ HasKey(log[j].resp.data, "CaptureId")
                      /\ log[k].value.transaction_id =
                             GetKey(log[j].resp.data, "CaptureId")
               /\ \A j \in 1..(k - 1) :
                      ( log[j].inv = log[k].inv /\ IsAnswer(j)
                        /\ log[j].endpoint = "Assert" ) =>
                          log[k].value.transaction_id #
                              GetKey(log[j].resp.data, "Transaction.Id")
               /\ \A j \in 1..(k - 1) :
                      ( log[j].inv = log[k].inv /\ log[j].type = "request"
                        /\ log[j].req.endpoint = "Assert" ) =>
                          log[k].value.transaction_id # log[j].req.Token
    /\ \A k \in Events :
           log[k].type = "issue_credit" =>
               /\ SameNext(k)
               /\ log[k + 1].type = "request"
               /\ log[k + 1].req.endpoint = "Refund"
               /\ log[k + 1].req.CaptureId = log[k].reference_number

\* C11 witness: a payment was captured and recorded, and a later
\* issue_credit called with the recorded reference has sent its Refund
\* request
C11_Witness ==
    \E k, j \in Events :
        /\ k < j
        /\ log[k].type = "returned" /\ log[k].op = "handle_processor_response"
        /\ \E p \in payments : p.reference = log[k].value.transaction_id
        /\ log[j].type = "request" /\ log[j].req.endpoint = "Refund"
        /\ log[j].req.CaptureId = log[k].value.transaction_id

(* --------------------------- single attempt --------------------------- *)

\* the requests an operation may send, in order
EndpointsOf(k) ==
    IF \E j \in Events : log[j].inv = log[k].inv /\ log[j].type = "callback"
    THEN {"Assert", "Capture"}
    ELSE IF \E j \in Events : log[j].inv = log[k].inv
                              /\ log[j].type = "issue_credit"
    THEN {"Refund"}
    ELSE {"Initialize"}

\* the answer at k is a failure of the call: of the transport, or a 200
\* answer without an expected field or with an amount that is no integer
FailedAnswer(k) ==
    /\ IsAnswer(k)
    /\ \/ TransportFailure(log[k].resp)
       \/ LacksKey(log[k].endpoint, log[k].resp)
       \/ /\ log[k].endpoint = "Assert"
          /\ ~IsIntString(GetKey(log[k].resp.data, "Transaction.Amount.Value"))

\* C12: an invocation sends at most one request to each endpoint, only to
\* the endpoints of its operation (Initialize; Assert, then Capture; Refund),
\* each with RetryIndicator 0, each answered at most once, and sends nothing
\* after an answer that is a timeout or an error.
C12_SingleAttempt ==
    \A k \in Events :
        /\ log[k].type = "request" =>
               /\ log[k].req.RequestHeader.RetryIndicator = 0
               /\ log[k].req.endpoint \in EndpointsOf(k)
               /\ \A j \in Events :
                      ( log[j].type = "request" /\ log[j].inv = log[k].inv
                        /\ log[j].req.endpoint = log[k].req.endpoint ) => j = k
               /\ log[k].req.endpoint = "Capture" =>
                      \E j \in 1..(k - 1) :
                          /\ log[j].type = "request" /\ log[j].inv = log[k].inv
                          /\ log[j].req.endpoint = "Assert"
        /\ IsAnswer(k) =>
               /\ \A j \in Events :
                      ( IsAnswer(j) /\ log[j].inv = log[k].inv
                        /\ log[j].endpoint = log[k].endpoint ) => j = k
        /\ FailedAnswer(k) =>
               \A j \in Events :
                   ( j > k /\ log[j].inv = log[k].inv ) =>
                       log[j].type \notin {"request", "answer"}

\* C12 witness: a callback sent its Assert and its Capture request, the
\* Capture request timed out and the callback has ended
C12_Witness ==
    \E a, c, t \in Events :
        /\ a < c /\ c < t
        /\ log[a].type = "request" /\ log[a].req.endpoint = "Assert"
        /\ log[c].type = "request" /\ log[c].req.endpoint = "Capture"
        /\ log[c].inv = log[a].inv
        /\ IsAnswer(t) /\ log[t].inv = log[a].inv
        /\ log[t].endpoint = "Capture" /\ log[t].resp.timeout
        /\ \E r \in Events : r > t /\ log[r].inv = log[a].inv
                             /\ log[r].type = "redirect"

(* ------------------------ post-order failure -------------------------- *)

\* C13: when handle_post_order raises in a callback (payment handling and
\* create_order have succeeded), the failure is logged at once through
\* log_order_placement_exception with the basket's order number and id, the
\* browser is then redirected to the receipt page, nothing escapes, and the
\* order exists.
C13_PostOrderFailureSwallowed ==
    \A k \in Events :
        ( log[k].type = "raised" /\ log[k].op = "handle_post_order" ) =>
            LET inv == log[k].inv
                basket == CallbackBasket(inv)
            IN  /\ \E j \in 1..(k - 1) :
                       log[j].inv = inv /\ log[j].type = "payment_handled"
                /\ \E j \in 1..(k - 1) :
                       log[j].inv = inv /\ log[j].type = "order_created"
                /\ SameNext(k) /\ SameNext(k + 1)
                /\ log[k + 1].type = "log_order_placement_exception"
                /\ log[k + 1].order_number = OrderNumber(basket)
                /\ log[k + 1].basket = basket
                /\ log[k + 2] = EvRedirect(inv, ReceiptUrl(basket))
                /\ \A j \in Events :
                       ( j > k + 2 ) => log[j].inv # inv
                /\ \E o \in orders : o.inv = inv /\ o.basket = basket

\* C13 witness: handle_post_order has raised in a callback that is over
C13_Witness ==
    \E k \in Events :
        /\ log[k].type = "raised" /\ log[k].op = "handle_post_order"
        /\ Finished(log[k].inv)
        /\ \E j \in Events : j > k /\ log[j].inv = log[k].inv
                             /\ log[j].type = "redirect"

(* ------------------------- callback not found ------------------------- *)

\* C14: a callback whose ppr_id names no row (rows are numbered in the order
\* of their insertion and never deleted) is answered 404 at once: its
\* invocation consists of the lookup only, with no gateway request, no
\* payment handling, no order creation, no redirect and no row inserted or
\* saved, and no order or payment stems from it.
C14_CallbackNotFound ==
    \A k \in Events :
        ( log[k].type = "callback" /\ log[k].ppr_id > RowsBefore(k) ) =>
            /\ SameNext(k)
            /\ log[k + 1] = Ev(log[k].inv, "not_found")
            /\ \A j \in Events : log[j].inv = log[k].inv => j \in {k, k + 1}
            /\ \A o \in orders : o.inv # log[k].inv
            /\ \A p \in payments : p.inv # log[k].inv
            /\ \A w \in Workers : workers[w].inv # log[k].inv

\* C14 witness: a row exists and a callback for another id was answered 404
C14_Witness ==
    \E k \in Events :
        /\ log[k].type = "callback"
        /\ log[k].ppr_id > Len(ppr) /\ Len(ppr) >= 1
        /\ k + 1 \in Events /\ log[k + 1].type = "not_found"

(* -------------------------- amount conversions ------------------------ *)

\* The conversions of an amount, each applied to every total of at most two
\* decimal places up to MaxWhole.99.
MaxWhole == 30

Totals == {Decimal(whole, frac) : whole \in 0..MaxWhole, frac \in 0..99}

InitAmount ==
    /\ ppr = <<>>
    /\ log = <<>>
    /\ workers = [w \in Workers |-> Idle]
    /\ orders = {}
    /\ payments = {}
    /\ ninv = 0
    /\ conv \in {[NoAmount EXCEPT !.stage = "input", !.total = total] :
                    total \in Totals}

\* lines 80-84: the amount of the Initialize request for a basket total
EncodeInitialize ==
    /\ conv.stage = "input"
    /\ conv' = [conv EXCEPT !.stage = "initialize",
                            !.value = PaymentAmount(conv.total, "CHF").AmountValue]

\* lines 146, 164-170: the total of the processor response for an Assert
\* answer that reports the amount of the Initialize request
DecodeAssert ==
    /\ conv.stage = "initialize"
    /\ LET assert_data ==
               (AssertFull \ {<<"Transaction.Amount.Value", Str1999>>})
               \cup {<<"Transaction.Amount.Value", conv.value>>}
           out == ParseAssert(assert_data)
       IN  conv' = IF out.exc # None
                   THEN [conv EXCEPT !.stage = "failed"]
                   ELSE [conv EXCEPT
                            !.stage = "handled",
                            !.back = HandledProcessorResponse(
                                         out.value,
                                         {<<"CaptureId", "CAP1">>}).total]

\* lines 179-185: the amount of the Refund request for a refunded amount
EncodeRefund ==
    /\ conv.stage = "input"
    /\ conv' = [conv EXCEPT
                   !.stage = "refund",
                   !.value = RefundRequestData("CAP1", conv.total,
                                               "CHF").AmountValue]

NextAmount ==
    /\ (EncodeInitialize \/ DecodeAssert \/ EncodeRefund)
    /\ UNCHANGED <<ppr, log, workers, orders, payments, ninv>>

SpecAmount == InitAmount /\ [][NextAmount]_vars

\* the characters are the decimal notation of n: digits only, no leading
\* zero, of value n
DecimalStringOf(chars, n) ==
    /\ IsIntString(chars)
    /\ PyInt(chars) = n
    /\ (Len(chars) > 1 => chars[1] # "0")

C16_AssertBeforeCapture ==
    \A k \in Events :
        /\ ( log[k].type = "request" /\ log[k].req.endpoint = "Capture" ) =>
               \E r, a \in 1..(k - 1) :
                   /\ r < a
                   /\ log[r].type = "request" /\ log[r].inv = log[k].inv
                   /\ log[r].req.endpoint = "Assert"
                   /\ IsAnswer(a) /\ log[a].inv = log[k].inv
                   /\ log[a].endpoint = "Assert"
                   /\ Ok200(log[a].resp)
                   /\ \A key \in Expected("Assert") :
                          HasKey(log[a].resp.data, key)
                   /\ log[k].req.TransactionId =
                          GetKey(log[a].resp.data, "Transaction.Id")
        /\ ( FailedAnswer(k) /\ log[k].endpoint = "Assert" ) =>
               \A j \in Events :
                   log[j].inv = log[k].inv =>
                       /\ ~( log[j].type = "request"
                             /\ log[j].req.endpoint = "Capture" )
                       /\ log[j].type # "returned"
        /\ ( log[k].type = "returned"
             /\ log[k].op = "handle_processor_response" ) =>
               \E c, a \in 1..(k - 1) :
                   /\ c < a
                   /\ log[c].type = "request" /\ log[c].inv = log[k].inv
                   /\ log[c].req.endpoint = "Capture"
                   /\ IsAnswer(a) /\ log[a].inv = log[k].inv
                   /\ log[a].endpoint = "Capture"
                   /\ Ok200(log[a].resp)
                   /\ HasKey(log[a].resp.data, "CaptureId")

\* C16 witness: a callback was answered by Assert, sent its Capture request
\* for the asserted transaction and returned a processor response
C16_Witness ==
    \E a, c, k \in Events :
        /\ a < c /\ c < k
        /\ IsAnswer(a) /\ log[a].endpoint = "Assert"
        /\ log[c].type = "request" /\ log[c].req.endpoint = "Capture"
        /\ log[c].inv = log[a].inv
        /\ log[c].req.TransactionId = GetKey(log[a].resp.data, "Transaction.Id")
        /\ log[k].type = "returned" /\ log[k].inv = log[a].inv
        /\ log[k].op = "handle_processor_response"

(* ------------------- audit rows and the atomic block ------------------ *)

\* C17: when an Assert or Capture request of a callback times out, is
\* answered with a body that is no JSON, or with a status other than 200,
\* the error row inserted by raise_api_error is in the table, unchanged,
\* once the handler has redirected, and neither an order nor a payment of
\* that callback exists.
C17_ErrorAuditSurvives ==
    \A k \in Events :
        ( IsAnswer(k) /\ log[k].endpoint \in {"Assert", "Capture"}
          /\ TransportFailure(log[k].resp) ) =>
            /\ AuditedGatewayError(k)
            /\ log[k + 1].id \in DOMAIN ppr
            /\ ppr[log[k + 1].id] = log[k + 1].row
            /\ \E j \in Events :
                   /\ j > k + 2 /\ log[j].inv = log[k].inv
                   /\ log[j].type = "redirect"
            /\ \A o \in orders : o.inv # log[k].inv
            /\ \A p \in payments : p.inv # log[k].inv

\* C17 witness: a Capture request was answered with status 500 after a
\* successful Assert; the callback has redirected and the error row is there
C17_Witness ==
    \E k \in Events :
        /\ IsAnswer(k) /\ log[k].endpoint = "Capture"
        /\ ~log[k].resp.timeout /\ log[k].resp.status_code # 200
        /\ \E j \in Events : j > k /\ log[j].inv = log[k].inv
                             /\ log[j].type = "redirect"
        /\ \E id \in DOMAIN ppr : ppr[id].response.kind = "error"

(* ------------------------ the pre-created row ------------------------- *)

\* the Initialize answer at k makes get_transaction_parameters fail
InitializeFails(k) ==
    /\ IsAnswer(k) /\ log[k].endpoint = "Initialize"
    /\ TransportFailure(log[k].resp) \/ LacksKey("Initialize", log[k].resp)

\* C18: a row is saved only by the call of get_transaction_parameters that
\* created it, once, between an Initialize answer that holds RedirectUrl and
\* Token and the return of the payment page URL; it then holds the Token as
\* transaction id and the whole answer as payload, and stays so. When the
\* Initialize answer is a timeout, no JSON, not 200 or lacks a field, the
\* pre-created row is never saved, keeps its empty payload and no
\* transaction id, and the call returns nothing.
C18_RecordUpdatedOnce ==
    /\ \A s \in Events :
           log[s].type = "record_saved" =>
               /\ \A t \in Events :
                      ( log[t].type = "record_saved" /\ log[t].id = log[s].id )
                          => t = s
               /\ \E c, a \in 1..(s - 1) :
                      /\ c < a
                      /\ log[c].type = "record_created"
                      /\ log[c].inv = log[s].inv /\ log[c].id = log[s].id
                      /\ log[c].row = Row(log[s].row.basket, None, EmptyPayload)
                      /\ IsAnswer(a) /\ log[a].inv = log[s].inv
                      /\ log[a].endpoint = "Initialize"
                      /\ Ok200(log[a].resp)
                      /\ HasKey(log[a].resp.data, "RedirectUrl")
                      /\ HasKey(log[a].resp.data, "Token")
                      /\ log[s].row.transaction_id =
                             GetKey(log[a].resp.data, "Token")
                      /\ log[s].row.response = DataPayload(log[a].resp.data)
               /\ ppr[log[s].id] = log[s].row
    /\ \A r \in Events :
           ( log[r].type = "returned"
             /\ log[r].op = "get_transaction_parameters" ) =>
               /\ r > 1
               /\ log[r - 1].type = "record_saved"
               /\ log[r - 1].inv = log[r].inv
               /\ HasKey(log[r].value, "payment_page_url")
    /\ \A k \in Events :
           InitializeFails(k) =>
               \A c \in 1..(k - 1) :
                   ( log[c].type = "record_created"
                     /\ log[c].inv = log[k].inv ) =>
                       /\ ppr[log[c].id] = log[c].row
                       /\ log[c].row.transaction_id = None
                       /\ log[c].row.response = EmptyPayload
                       /\ \A j \in Events :
                              log[j].inv = log[k].inv =>
                                  log[j].type \notin {"record_saved", "returned"}

\* C18 witness: one call failed at a 200 answer without Token and left its
\* row as created, another call saved its row and returned
C18_Witness ==
    \E k, s \in Events :
        /\ InitializeFails(k) /\ Ok200(log[k].resp)
        /\ \E j \in Events : j > k /\ log[j].inv = log[k].inv
                             /\ log[j].type = "raised"
        /\ log[s].type = "record_saved"
        /\ s + 1 \in Events /\ log[s + 1].type = "returned"

(* -------------------------- token provenance -------------------------- *)

\* C19: the Token of every Assert request is the Token of a 200 answer to
\* an Initialize request, saved by get_transaction_parameters on the row the
\* callback looked up.
C19_TokenProvenance ==
    \A k \in Events :
        ( log[k].type = "request" /\ log[k].req.endpoint = "Assert" ) =>
            \E c, s, a \in 1..(k - 1) :
                /\ log[c].type = "callback" /\ log[c].inv = log[k].inv
                /\ log[s].type = "record_saved" /\ log[s].id = log[c].ppr_id
                /\ log[s].row.transaction_id = log[k].req.Token
                /\ a < s
                /\ IsAnswer(a) /\ log[a].inv = log[s].inv
                /\ log[a].endpoint = "Initialize" /\ Ok200(log[a].resp)
                /\ HasKey(log[a].resp.data, "Token")
                /\ GetKey(log[a].resp.data, "Token") = log[k].req.Token

(* --------------------- one capture for one payment -------------------- *)

\* the row the invocation of event k was called back for (0 if none)
CallbackRow(k) ==
    IF \E c \in Events : log[c].type = "callback" /\ log[c].inv = log[k].inv
    THEN log[CHOOSE c \in Events :
                 log[c].type = "callback" /\ log[c].inv = log[k].inv].ppr_id
    ELSE 0

\* C20: over all callbacks for one row, at most one Capture request is sent
\* and create_order is attempted at most once.
C20_AtMostOneCapture ==
    \A k, j \in Events :
        ( CallbackRow(k) # 0 /\ CallbackRow(k) = CallbackRow(j) ) =>
            /\ ( log[k].type = "request" /\ log[k].req.endpoint = "Capture"
                 /\ log[j].type = "request" /\ log[j].req.endpoint = "Capture" )
                   => k = j
            /\ ( log[k].type = "create_order" /\ log[j].type = "create_order" )
                   => k = j

====
